---- MODULE Spec2Model ----
(***************************************************************************)
(* NetworkDataProcessor of src/data_processing.py: a processor object that *)
(* holds three tables (network_data, processed_data, operator_data) and    *)
(* four stage methods plus run_full_pipeline.                              *)
(*                                                                         *)
(* Tables are sequences of rows (records).  A stored table is an option    *)
(* value: None, or Some(rows).                                             *)
(*                                                                         *)
(* The global numpy generator is a position in a cyclic stream of uniform  *)
(* draws; np.random.seed(42) puts the position back at 0.  The stream is   *)
(* fixed for a behaviour and unknown to the model, so Init chooses it.     *)
(*                                                                         *)
(* Columns the modelled stages only carry along (timestamp,                *)
(* response_time_min, customer_complaints, network_uptime_pct,             *)
(* data_throughput_mbps, and performance_score, which needs exp) are not   *)
(* stored; their draws are still consumed from the generator.              *)
(***************************************************************************)
EXTENDS Integers, Sequences, FiniteSets, TLC

VARIABLES network_data, processed_data, operator_data,  \* the object's fields
          rng, stream,                                  \* numpy's global generator
          op, arg, raised, trace,                       \* the last call and its outcome
          ret_table, ret_exports,                       \* what the last call returned
          produced,                                     \* the stages whose output has been stored
          gen_log,                                      \* first table generate_network_data returned
          scores, ranks                                 \* Series.rank input and output

vars == <<network_data, processed_data, operator_data, rng, stream,
          op, arg, raised, trace, ret_table, ret_exports, produced, gen_log,
          scores, ranks>>

----------------------------------------------------------------------------
(* Bounds *)

MaxRecords == 2
Period == 3
DrawMax == 1
MaxOps == 3
MaxScore == 3

\* n_records of run_full_pipeline's generate_network_data() call (5000 in the
\* source), scaled to the largest record count of the model.
DefaultRecords == MaxRecords

----------------------------------------------------------------------------
(* Label lists of generate_network_data, cut to a prefix *)

towers == <<"TOWER_001", "TOWER_002">>
operators == <<"OP_001", "OP_002">>
regions == <<"North", "South">>
issue_types == <<"No Issue", "Call Drop", "Low Signal", "Network Congestion", "Equipment Failure">>
\* cumulative p of the issue_type draw, in percent
issue_cdf == <<70, 82, 90, 96, 100>>
critical_types == {"Equipment Failure", "Network Congestion"}

\* groupby sorts its keys: the labels in ascending order
sorted_towers == <<"TOWER_001", "TOWER_002">>
sorted_operators == <<"OP_001", "OP_002">>
sorted_regions == <<"Central", "East", "North", "South", "West">>

----------------------------------------------------------------------------
(* Option values and small helpers *)

None == [some |-> FALSE, rows |-> <<>>]
Some(rows) == [some |-> TRUE, rows |-> rows]

Range(s) == {s[i] : i \in DOMAIN s}

RECURSIVE SumSeq(_)
SumSeq(s) == IF s = <<>> THEN 0 ELSE Head(s) + SumSeq(Tail(s))

Column(rows, c) == [i \in DOMAIN rows |-> rows[i][c]]

MaxOf(s) == CHOOSE m \in Range(s) : \A x \in Range(s) : x <= m

----------------------------------------------------------------------------
(* numpy's global generator *)

\* The i-th next draw (i = 0, 1, ...) of a generator at position pos: a
\* uniform value in one of DrawMax + 1 buckets.
random_sample(pos, i) == stream[((pos + i) % Period) + 1]

\* np.random.seed(42)
seed == 0

\* The generator's position after k draws.
advance(pos, k) == (pos + k) % Period

\* np.random.choice(labels): the label the uniform bucket u selects
choice(labels, u) == labels[((u * Len(labels)) \div (DrawMax + 1)) + 1]

\* np.random.choice(issue types, p=[0.70, 0.12, 0.08, 0.06, 0.04]): the first
\* label whose cumulative probability exceeds the draw (midpoint of bucket u)
choice_p(u) ==
    LET u100 == (100 * (2 * u + 1)) \div (2 * (DrawMax + 1))
        k == CHOOSE j \in DOMAIN issue_cdf :
                 /\ issue_cdf[j] > u100
                 /\ \A h \in DOMAIN issue_cdf : issue_cdf[h] > u100 => j <= h
    IN  issue_types[k]

\* np.random.exponential(scale): positive and increasing in the draw
exponential(u) == u + 1

\* np.random.uniform(lo, hi): a value of [lo, hi)
uniform(lo, hi, u) == lo + ((hi - lo) * u) \div (DrawMax + 1)

\* Series.clip(lo, hi)
clip(x, lo, hi) == IF x < lo THEN lo ELSE IF x > hi THEN hi ELSE x

----------------------------------------------------------------------------
(* Fractions: resolution_efficiency and its means are exact rationals *)

Frac(n, d) == [num |-> n, den |-> d]

FAdd(a, b) == Frac(a.num * b.den + b.num * a.den, a.den * b.den)

RECURSIVE FSum(_)
FSum(s) == IF s = <<>> THEN Frac(0, 1) ELSE FAdd(Head(s), FSum(Tail(s)))

\* Series.mean() of a non-empty column of fractions
FMean(s) == LET t == FSum(s) IN Frac(t.num, t.den * Len(s))

RECURSIVE ProdDen(_)
ProdDen(s) == IF s = <<>> THEN 1 ELSE Head(s).den * ProdDen(Tail(s))

\* The fractions of s as integers over their common denominator ProdDen(s)
CommonNum(s) == [i \in DOMAIN s |-> s[i].num * (ProdDen(s) \div s[i].den)]

----------------------------------------------------------------------------
(* pandas helpers *)

\* Variant of GroupKeys: one key per row, duplicates kept
GroupKeys_per_row(sorted_labels, rows, col) ==
    [i \in DOMAIN rows |-> rows[i][col]]

\* groupby(col): the distinct keys of the column, in sorted order
GroupKeys(sorted_labels, rows, col) ==
    SelectSeq(sorted_labels, LAMBDA k : \E i \in DOMAIN rows : rows[i][col] = k)

\* the rows of one group
Group(rows, col, k) == SelectSeq(rows, LAMBDA r : r[col] = k)

\* Series.rank(ascending=False).astype(int): pandas' default method is
\* 'average' (ties share the mean of the positions they span, counted from
\* the largest value), and astype(int) truncates the mean.
rank(s) ==
    [i \in DOMAIN s |->
        LET greater == Cardinality({j \in DOMAIN s : s[j] > s[i]})
            equal   == Cardinality({j \in DOMAIN s : s[j] = s[i]})
        IN  (2 * greater + equal + 1) \div 2]

----------------------------------------------------------------------------
(* The processor and its stages, as functions of the object's state *)

\* A processor state: the three fields of the object and the position of the
\* global generator, which __init__ does not touch.
Processor(nd, pd, od, g) == [network_data |-> nd, processed_data |-> pd,
                            operator_data |-> od, rng |-> g]

NoExports == <<>>

Returns(s, t) == [st |-> s, raised |-> "none", table |-> t, exports |-> NoExports]
Raises(s, e) == [st |-> s, raised |-> e, table |-> None, exports |-> NoExports]

\* Variant of generate_network_data: np.random.seed(42) left out, so the draws
\* start where the generator stands
generate_network_data_unseeded(s, n) ==
    LET draw(c, r) == random_sample(s.rng, c * n + (r - 1))
        rows == [r \in 1..n |->
                    [tower_id            |-> choice(towers, draw(0, r)),
                     region              |-> choice(regions, draw(1, r)),
                     operator_id         |-> choice(operators, draw(2, r)),
                     issue_type          |-> choice_p(draw(3, r)),
                     resolution_time_min |-> exponential(draw(5, r))]]
    IN  Returns([s EXCEPT !.network_data = Some(rows),
                          !.rng = advance(s.rng, 9 * n)],
                Some(rows))

\* generate_network_data(n_records): reseeds, draws the columns one after the
\* other (n draws each, nine drawn columns), stores and returns the table.
generate_network_data(s, n) ==
    LET draw(c, r) == random_sample(seed, c * n + (r - 1))
        rows == [r \in 1..n |->
                    [tower_id            |-> choice(towers, draw(0, r)),
                     region              |-> choice(regions, draw(1, r)),
                     operator_id         |-> choice(operators, draw(2, r)),
                     issue_type          |-> choice_p(draw(3, r)),
                     resolution_time_min |-> exponential(draw(5, r))]]
    IN  Returns([s EXCEPT !.network_data = Some(rows),
                          !.rng = advance(seed, 9 * n)],
                Some(rows))

\* Variant of analyze_row: has_issue tests == 'No Issue' instead of !=
analyze_row_inverted(r, mx) ==
    LET has_issue == IF r.issue_type = "No Issue" THEN 1 ELSE 0
        is_critical == IF r.issue_type \in critical_types THEN 1 ELSE 0
    IN  [tower_id              |-> r.tower_id,
         region                |-> r.region,
         operator_id           |-> r.operator_id,
         issue_type            |-> r.issue_type,
         resolution_time_min   |-> r.resolution_time_min,
         has_issue             |-> has_issue,
         is_critical           |-> is_critical,
         resolution_efficiency |-> IF has_issue = 1
                                   THEN Frac(mx - r.resolution_time_min, mx)
                                   ELSE Frac(1, 1)]

\* The per-row derivation of analyze_issues; mx is the column maximum of
\* resolution_time_min over the whole table.
analyze_row(r, mx) ==
    LET has_issue == IF r.issue_type # "No Issue" THEN 1 ELSE 0
        is_critical == IF r.issue_type \in critical_types THEN 1 ELSE 0
    IN  [tower_id              |-> r.tower_id,
         region                |-> r.region,
         operator_id           |-> r.operator_id,
         issue_type            |-> r.issue_type,
         resolution_time_min   |-> r.resolution_time_min,
         has_issue             |-> has_issue,
         is_critical           |-> is_critical,
         resolution_efficiency |-> IF has_issue = 1
                                   THEN Frac(mx - r.resolution_time_min, mx)
                                   ELSE Frac(1, 1)]

\* Variant of resolution_max: the maximum over the issue-bearing rows only
resolution_max_issue_rows(df) ==
    LET issues == SelectSeq(df, LAMBDA r : r.issue_type # "No Issue")
    IN  IF issues = <<>> THEN 0 ELSE MaxOf(Column(issues, "resolution_time_min"))

\* df['resolution_time_min'].max()
resolution_max(df) ==
    IF df = <<>> THEN 0 ELSE MaxOf(Column(df, "resolution_time_min"))

\* Variant of analyze_issues: no precondition check, an empty table when
\* nothing was generated
analyze_issues_unchecked(s) ==
    LET df == s.network_data.rows
        out == [i \in DOMAIN df |-> analyze_row(df[i], resolution_max(df))]
    IN  Returns([s EXCEPT !.processed_data = Some(out)], Some(out))

\* Variant of analyze_issues: df = self.network_data without .copy(), so the
\* derived columns land in network_data too
analyze_issues_in_place(s) ==
    IF s.network_data = None
    THEN Raises(s, "precondition")
    ELSE LET df == s.network_data.rows
             out == [i \in DOMAIN df |-> analyze_row(df[i], resolution_max(df))]
         IN  Returns([s EXCEPT !.network_data = Some(out),
                               !.processed_data = Some(out)], Some(out))

\* analyze_issues(): works on a copy of network_data
analyze_issues(s) ==
    IF s.network_data = None
    THEN Raises(s, "precondition")
    ELSE LET df == s.network_data.rows
             out == [i \in DOMAIN df |-> analyze_row(df[i], resolution_max(df))]
         IN  Returns([s EXCEPT !.processed_data = Some(out)], Some(out))

\* generate_operator_metrics(): one row per operator group, two synthetic
\* columns of len(operator_stats) draws each, then the two ranks.
generate_operator_metrics(s) ==
    IF s.processed_data = None
    THEN Raises(s, "precondition")
    ELSE LET df == s.processed_data.rows
             keys == GroupKeys(sorted_operators, df, "operator_id")
             k == Len(keys)
             eff == [j \in 1..k |->
                        FMean(Column(Group(df, "operator_id", keys[j]),
                                     "resolution_efficiency"))]
             eff_rank == rank(CommonNum(eff))
             stats == [j \in 1..k |->
                 LET g == Group(df, "operator_id", keys[j])
                 IN  [operator_id      |-> keys[j],
                      total_issues     |-> SumSeq(Column(g, "has_issue")),
                      total_events     |-> Len(g),
                      avg_resolution_time |->
                          Frac(SumSeq(Column(g, "resolution_time_min")), Len(g)),
                      efficiency_score |-> eff[j],
                      detection_rate   |->
                          clip(78 + uniform(0 - 5, 5, random_sample(s.rng, j - 1)),
                               70, 85),
                      performance_improvement_pct |->
                          35 + uniform(0 - 5, 10, random_sample(s.rng, k + j - 1)),
                      efficiency_rank  |-> eff_rank[j]]]
         IN  Returns([s EXCEPT !.operator_data = Some(stats),
                               !.rng = advance(s.rng, 2 * k)],
                     Some(stats))

\* The column projection of the network_events export
network_export_row(r) ==
    [tower_id |-> r.tower_id, region |-> r.region, operator_id |-> r.operator_id,
     issue_type |-> r.issue_type, has_issue |-> r.has_issue,
     is_critical |-> r.is_critical, resolution_time_min |-> r.resolution_time_min]

\* Variant of regional_summary: the sum and count columns named the other way
\* round
regional_summary_swapped(df) ==
    LET keys == GroupKeys(sorted_regions, df, "region")
    IN  [j \in DOMAIN keys |->
            LET g == Group(df, "region", keys[j])
            IN  [region       |-> keys[j],
                 total_issues |-> Len(g),
                 total_events |-> SumSeq(Column(g, "has_issue"))]]

\* groupby('region').agg(has_issue: [sum, count])
regional_summary(df) ==
    LET keys == GroupKeys(sorted_regions, df, "region")
    IN  [j \in DOMAIN keys |->
            LET g == Group(df, "region", keys[j])
            IN  [region       |-> keys[j],
                 total_issues |-> SumSeq(Column(g, "has_issue")),
                 total_events |-> Len(g)]]

\* groupby('tower_id').agg(has_issue: sum)
tower_stats(df) ==
    LET keys == GroupKeys(sorted_towers, df, "tower_id")
    IN  [j \in DOMAIN keys |->
            [tower_id     |-> keys[j],
             total_issues |-> SumSeq(Column(Group(df, "tower_id", keys[j]),
                                            "has_issue"))]]

\* create_powerbi_exports(): operator_metrics is the stored operator_data
create_powerbi_exports(s) ==
    IF s.processed_data = None \/ s.operator_data = None
    THEN Raises(s, "precondition")
    ELSE LET df == s.processed_data.rows
         IN  [st |-> s, raised |-> "none", table |-> None,
              exports |->
                 [network_events    |-> [i \in DOMAIN df |-> network_export_row(df[i])],
                  operator_metrics  |-> s.operator_data.rows,
                  regional_summary  |-> regional_summary(df),
                  tower_performance |-> tower_stats(df)]]

\* Variant of run_full_pipeline: the analyze_issues call left out
run_full_pipeline_skips_analyze(s) ==
    LET g == generate_network_data(s, DefaultRecords)
        m == generate_operator_metrics(g.st)
        e == create_powerbi_exports(m.st)
        res == IF g.raised # "none" THEN g
               ELSE IF m.raised # "none" THEN m
               ELSE e
        n == IF g.raised # "none" THEN 1
             ELSE IF m.raised # "none" THEN 2
             ELSE 3
    IN  [res |-> res, generated |-> g,
         calls |-> SubSeq(<<"generate_network_data", "generate_operator_metrics",
                            "create_powerbi_exports">>, 1, n)]

\* run_full_pipeline(): the four stages in sequence; an exception raised by a
\* stage propagates, so the stages after it do not run.
run_full_pipeline(s) ==
    LET g == generate_network_data(s, DefaultRecords)
        a == analyze_issues(g.st)
        m == generate_operator_metrics(a.st)
        e == create_powerbi_exports(m.st)
        res == IF g.raised # "none" THEN g
               ELSE IF a.raised # "none" THEN a
               ELSE IF m.raised # "none" THEN m
               ELSE e
        n == IF g.raised # "none" THEN 1
             ELSE IF a.raised # "none" THEN 2
             ELSE IF m.raised # "none" THEN 3
             ELSE 4
    IN  [res |-> res, generated |-> g,
         calls |-> SubSeq(<<"generate_network_data", "analyze_issues",
                            "generate_operator_metrics", "create_powerbi_exports">>,
                          1, n)]

----------------------------------------------------------------------------
(* The state machine: one action per public method *)

Self == Processor(network_data, processed_data, operator_data, rng)

\* The stages that store a table in the object
ProducingStages == {"generate_network_data", "analyze_issues",
                    "generate_operator_metrics"}

\* The effect of a call that ended with result r; calls are the stages it
\* invoked, the last of which raised if r did.
Effect(name, a, r, calls) ==
    /\ network_data' = r.st.network_data
    /\ processed_data' = r.st.processed_data
    /\ operator_data' = r.st.operator_data
    /\ rng' = r.st.rng
    /\ op' = name
    /\ arg' = a
    /\ raised' = r.raised
    /\ trace' = calls
    /\ ret_table' = r.table
    /\ ret_exports' = r.exports
    /\ produced' = produced \cup
           (ProducingStages \cap (IF r.raised = "none" THEN Range(calls)
                                  ELSE Range(SubSeq(calls, 1, Len(calls) - 1))))

\* Observer of generate_network_data: the first table it ever returned, with
\* its record count.
NoLog == [n |-> 0, table |-> None]

LogGenerate(n, r) ==
    IF r.raised = "none" /\ gen_log.table = None
    THEN [n |-> n, table |-> r.table]
    ELSE gen_log

\* n_records is a positive integer
RecordCounts == 1..MaxRecords

GenerateNetworkData ==
    \E n \in RecordCounts :
        \E r \in {generate_network_data(Self, n)} :
            /\ Effect("generate_network_data", n, r, <<"generate_network_data">>)
            /\ gen_log' = LogGenerate(n, r)
            /\ UNCHANGED <<stream, scores, ranks>>

AnalyzeIssues ==
    \E r \in {analyze_issues(Self)} :
        /\ Effect("analyze_issues", 0, r, <<"analyze_issues">>)
        /\ UNCHANGED <<stream, gen_log, scores, ranks>>

GenerateOperatorMetrics ==
    \E r \in {generate_operator_metrics(Self)} :
        /\ Effect("generate_operator_metrics", 0, r, <<"generate_operator_metrics">>)
        /\ UNCHANGED <<stream, gen_log, scores, ranks>>

CreatePowerbiExports ==
    \E r \in {create_powerbi_exports(Self)} :
        /\ Effect("create_powerbi_exports", 0, r, <<"create_powerbi_exports">>)
        /\ UNCHANGED <<stream, gen_log, scores, ranks>>

\* The generate_network_data call of the pipeline is logged like any other.
RunFullPipeline ==
    \E p \in {run_full_pipeline(Self)} :
        /\ Effect("run_full_pipeline", 0, p.res, p.calls)
        /\ gen_log' = LogGenerate(DefaultRecords, p.generated)
        /\ UNCHANGED <<stream, scores, ranks>>

\* Series.rank(ascending=False).astype(int) applied to a column of scores
ApplyRank ==
    /\ ranks' = rank(scores)
    /\ UNCHANGED <<network_data, processed_data, operator_data, rng, stream,
                   op, arg, raised, trace, ret_table, ret_exports, produced, gen_log,
                   scores>>

----------------------------------------------------------------------------
(* Specifications *)

Streams == [1..Period -> 0..DrawMax]

\* A freshly constructed processor; the global generator is wherever the
\* process left it, and the stream behind seed 42 is any one stream.
Init ==
    /\ network_data = None
    /\ processed_data = None
    /\ operator_data = None
    /\ rng \in 0..(Period - 1)
    /\ stream \in Streams
    /\ op = "__init__"
    /\ arg = 0
    /\ raised = "none"
    /\ trace = <<>>
    /\ ret_table = None
    /\ ret_exports = NoExports
    /\ produced = {}
    /\ gen_log = NoLog
    /\ scores = <<>>
    /\ ranks = <<>>

Next ==
    \/ GenerateNetworkData
    \/ AnalyzeIssues
    \/ GenerateOperatorMetrics
    \/ CreatePowerbiExports
    \/ RunFullPipeline

Spec == Init /\ [][Next]_vars

\* The stages after generation applied to any small table: network_data holds
\* an arbitrary table of valid rows (the empty table of n_records = 0
\* included), as generated under some stream.
InputIssueTypes == {"No Issue", "Call Drop", "Equipment Failure"}
InputResolutionTimes == {1, 2}

InputRows == [tower_id : {towers[1]}, region : Range(regions),
              operator_id : Range(operators), issue_type : InputIssueTypes,
              resolution_time_min : InputResolutionTimes]

InputTables == UNION {[1..n -> InputRows] : n \in 0..MaxRecords}

InitAnalyze ==
    /\ network_data \in {Some(t) : t \in InputTables}
    /\ processed_data = None
    /\ operator_data = None
    /\ rng = seed
    /\ stream = [i \in 1..Period |-> 0]
    /\ op = "generate_network_data"
    /\ arg = Len(network_data.rows)
    /\ raised = "none"
    /\ trace = <<"generate_network_data">>
    /\ ret_table = network_data
    /\ ret_exports = NoExports
    /\ produced = {"generate_network_data"}
    /\ gen_log = [n |-> Len(network_data.rows), table |-> network_data]
    /\ scores = <<>>
    /\ ranks = <<>>

NextAnalyze ==
    \/ AnalyzeIssues
    \/ GenerateOperatorMetrics
    \/ CreatePowerbiExports

SpecAnalyze == InitAnalyze /\ [][NextAnalyze]_vars

\* Series.rank applied to any small column of scores
InitRank ==
    /\ network_data = None
    /\ processed_data = None
    /\ operator_data = None
    /\ rng = seed
    /\ stream = [i \in 1..Period |-> 0]
    /\ op = "__init__"
    /\ arg = 0
    /\ raised = "none"
    /\ trace = <<>>
    /\ ret_table = None
    /\ ret_exports = NoExports
    /\ produced = {}
    /\ gen_log = NoLog
    /\ scores \in UNION {[1..k -> 0..MaxScore] : k \in 1..MaxOps}
    /\ ranks = <<>>

NextRank == ApplyRank

SpecRank == InitRank /\ [][NextRank]_vars

----------------------------------------------------------------------------
(* Properties *)

Ok(name) == op = name /\ raised = "none"

OperatorIds(rows) == {rows[i].operator_id : i \in DOMAIN rows}

IssueRows(rows) == {i \in DOMAIN rows : rows[i].has_issue = 1}

\* C1: a stage invoked before its required predecessor has produced output
\* raises the precondition error and returns no table: analyze_issues when
\* generate_network_data has never run, generate_operator_metrics when
\* analyze_issues has never succeeded, create_powerbi_exports when either
\* analyze_issues or generate_operator_metrics has never succeeded.
C1_PreconditionErrors ==
    LET failed == raised = "precondition" /\ ret_table = None /\ ret_exports = NoExports
    IN  /\ (op = "analyze_issues" /\ "generate_network_data" \notin produced) => failed
        /\ (op = "generate_operator_metrics" /\ "analyze_issues" \notin produced) => failed
        /\ (op = "create_powerbi_exports"
              /\ ({"analyze_issues", "generate_operator_metrics"} \ produced) # {}) => failed

\* create_powerbi_exports was called after analyze_issues but before any
\* generate_operator_metrics, and raised.
C1_Witness ==
    /\ op = "create_powerbi_exports"
    /\ "analyze_issues" \in produced
    /\ "generate_operator_metrics" \notin produced
    /\ raised = "precondition"

\* C2 as stated: in the table analyze_issues returns, the row with the maximum
\* resolution_time_min among the issue-bearing rows has resolution_efficiency 0.
C2_MaxIssueRowIsZero ==
    Ok("analyze_issues") =>
        LET df == ret_table.rows
        IN  \A i \in IssueRows(df) :
                (\A j \in IssueRows(df) :
                     df[j].resolution_time_min <= df[i].resolution_time_min)
                => df[i].resolution_efficiency.num = 0

\* C2 amended: the row with the maximum resolution_time_min among the
\* issue-bearing rows has resolution_efficiency 0 exactly when no row of the
\* table, issue-bearing or not, has a larger resolution_time_min.
C2_MaxIssueRowIsZeroIffTableMax ==
    Ok("analyze_issues") =>
        LET df == ret_table.rows
        IN  \A i \in IssueRows(df) :
                (\A j \in IssueRows(df) :
                     df[j].resolution_time_min <= df[i].resolution_time_min)
                => (df[i].resolution_efficiency.num = 0
                      <=> \A j \in DOMAIN df :
                              df[j].resolution_time_min <= df[i].resolution_time_min)

\* analyze_issues returned a table whose slowest issue-bearing row is slower
\* than every other row, next to a row without an issue.
C2_Witness ==
    /\ Ok("analyze_issues")
    /\ LET df == ret_table.rows
       IN  \E i \in IssueRows(df), j \in DOMAIN df :
               /\ df[j].has_issue = 0
               /\ df[j].resolution_time_min < df[i].resolution_time_min
               /\ df[i].resolution_efficiency.num = 0

\* C3 as stated: the ranks are dense: the highest score gets rank 1, equal
\* scores get equal ranks, and the ranks used are exactly 1..k for k distinct
\* score values.
C3_DenseRanks ==
    ranks # <<>> =>
        /\ \A i \in DOMAIN scores :
               (\A j \in DOMAIN scores : scores[j] <= scores[i]) => ranks[i] = 1
        /\ \A i, j \in DOMAIN scores : scores[i] = scores[j] => ranks[i] = ranks[j]
        /\ Range(ranks) = 1..Cardinality(Range(scores))

\* C4: two invocations of generate_network_data with the same record count
\* return identical tables, whatever ran between them: every table returned
\* for the record count of the first invocation is the table returned then.
C4_GenerateDeterministic ==
    /\ (Ok("generate_network_data") /\ arg = gen_log.n) => ret_table = gen_log.table
    /\ (Ok("run_full_pipeline") /\ gen_log.n = DefaultRecords)
           => network_data = gen_log.table

\* generate_network_data returned a table for the record count of its first
\* invocation after generate_operator_metrics had drawn from the generator.
C4_Witness ==
    /\ Ok("generate_network_data")
    /\ arg = gen_log.n
    /\ operator_data # None
    /\ operator_data.rows # <<>>

\* C5: the table generate_operator_metrics returns has exactly one row per
\* distinct operator_id of processed_data: no operator dropped, none duplicated.
C5_OneRowPerOperator ==
    Ok("generate_operator_metrics") =>
        /\ OperatorIds(ret_table.rows) = OperatorIds(processed_data.rows)
        /\ \A i, j \in DOMAIN ret_table.rows :
               ret_table.rows[i].operator_id = ret_table.rows[j].operator_id => i = j

\* generate_operator_metrics aggregated a table in which one operator has
\* several rows.
C5_Witness ==
    /\ Ok("generate_operator_metrics")
    /\ Len(processed_data.rows) > Len(ret_table.rows)
    /\ Len(ret_table.rows) > 0

\* C6: in the mapping create_powerbi_exports returns, total_events of every
\* region is the number of analyzed rows of that region, so the column sums
\* to the row count of network_events.
C6_RegionTotals ==
    Ok("create_powerbi_exports") =>
        LET summary == ret_exports.regional_summary
            events == ret_exports.network_events
            count(R) == Cardinality({i \in DOMAIN events : events[i].region = R})
        IN  /\ \A R \in Range(sorted_regions) :
                   IF count(R) = 0
                   THEN \A j \in DOMAIN summary : summary[j].region # R
                   ELSE \E j \in DOMAIN summary :
                            /\ summary[j].region = R
                            /\ summary[j].total_events = count(R)
            /\ SumSeq(Column(summary, "total_events")) = Len(events)

\* create_powerbi_exports summarised a table with rows in two regions, one
\* of them without an issue.
C6_Witness ==
    /\ Ok("create_powerbi_exports")
    /\ Len(ret_exports.regional_summary) = 2
    /\ \E j \in DOMAIN ret_exports.regional_summary :
           ret_exports.regional_summary[j].total_issues = 0

\* C7: in the table analyze_issues returns, has_issue is 0 exactly for
\* issue_type "No Issue", is_critical = 1 implies has_issue = 1, and both
\* flags are functions of issue_type alone.
C7_FlagsFollowIssueType ==
    Ok("analyze_issues") =>
        LET df == ret_table.rows
        IN  /\ \A i \in DOMAIN df :
                   /\ df[i].has_issue \in {0, 1}
                   /\ df[i].is_critical \in {0, 1}
                   /\ df[i].has_issue = 0 <=> df[i].issue_type = "No Issue"
                   /\ df[i].is_critical = 1 => df[i].has_issue = 1
            /\ \A i, j \in DOMAIN df :
                   df[i].issue_type = df[j].issue_type
                   => /\ df[i].has_issue = df[j].has_issue
                      /\ df[i].is_critical = df[j].is_critical

\* analyze_issues returned a table with a critical row and a row whose issue
\* is not critical.
C7_Witness ==
    /\ Ok("analyze_issues")
    /\ \E i, j \in DOMAIN ret_table.rows :
           /\ ret_table.rows[i].is_critical = 1
           /\ ret_table.rows[j].has_issue = 1
           /\ ret_table.rows[j].is_critical = 0

\* C8: run_full_pipeline, from any state, calls the four stages once each in
\* order, raises nothing, and returns the four tables, each derived from the
\* table generated in that run.
C8_PipelineRunsAllStages ==
    op = "run_full_pipeline" =>
        /\ raised = "none"
        /\ trace = <<"generate_network_data", "analyze_issues",
                     "generate_operator_metrics", "create_powerbi_exports">>
        /\ DOMAIN ret_exports = {"network_events", "operator_metrics",
                                 "regional_summary", "tower_performance"}
        /\ Len(network_data.rows) = DefaultRecords
        /\ Len(ret_exports.network_events) = DefaultRecords
        /\ \A i \in DOMAIN network_data.rows :
               LET g == network_data.rows[i]
                   e == ret_exports.network_events[i]
               IN  /\ e.tower_id = g.tower_id
                   /\ e.region = g.region
                   /\ e.operator_id = g.operator_id
                   /\ e.issue_type = g.issue_type
                   /\ e.resolution_time_min = g.resolution_time_min
        /\ OperatorIds(ret_exports.operator_metrics) = OperatorIds(network_data.rows)
        /\ SumSeq(Column(ret_exports.operator_metrics, "total_events")) = DefaultRecords
        /\ SumSeq(Column(ret_exports.regional_summary, "total_events")) = DefaultRecords
        /\ {ret_exports.tower_performance[j].tower_id :
                j \in DOMAIN ret_exports.tower_performance}
             = {network_data.rows[i].tower_id : i \in DOMAIN network_data.rows}

\* run_full_pipeline returned on a processor that had already generated a
\* table of another size and aggregated it.
C8_Witness ==
    /\ Ok("run_full_pipeline")
    /\ gen_log.table # None
    /\ gen_log.n # DefaultRecords

\* C9 as stated: every mapping create_powerbi_exports returns is derived from
\* one analyzed table: the operator ids of its operator_metrics are the
\* distinct operator ids of its network_events.
C9_ExportsFromOneTable ==
    Ok("create_powerbi_exports") =>
        OperatorIds(ret_exports.operator_metrics)
            = OperatorIds(ret_exports.network_events)

\* C10: each stage changes only its own stored table, create_powerbi_exports
\* changes none, and a call that raises the precondition error changes none.
C10_Frame ==
    [][/\ op' = "generate_network_data" => UNCHANGED <<processed_data, operator_data>>
       /\ op' = "analyze_issues" => UNCHANGED <<network_data, operator_data>>
       /\ op' = "generate_operator_metrics" => UNCHANGED <<network_data, processed_data>>
       /\ op' = "create_powerbi_exports"
              => UNCHANGED <<network_data, processed_data, operator_data>>
       /\ (raised' = "precondition" /\ op' # "run_full_pipeline")
              => UNCHANGED <<network_data, processed_data, operator_data>>]_vars

\* analyze_issues returned a new table on a processor that already held an
\* analyzed table of another size and its operator metrics.
C10_Witness ==
    /\ Ok("analyze_issues")
    /\ operator_data # None
    /\ Len(network_data.rows) = Len(ret_table.rows)
    /\ Len(ret_table.rows) # SumSeq(Column(operator_data.rows, "total_events"))

====
